---- MODULE Spec2Model ----
(***************************************************************************)
(* A model of the semka semaphore crate: the POSIX backend (src/posix.rs), *)
(* the kernel-object backends (src/win32.rs, src/mac.rs), the atomic       *)
(* boolean backend (src/atomic.rs, src/binary/atomic.rs), the shared       *)
(* integer backend (src/wasm.rs) and the traits and guards of src/lib.rs.  *)
(*                                                                         *)
(* Threads are the callers.  Every atomic access or native call of a       *)
(* method is one step of the calling thread; what a method does after its  *)
(* last shared access (building a guard, returning) is part of that step.  *)
(***************************************************************************)
EXTENDS Integers, Sequences, FiniteSets, TLC

VARIABLES
    backend,    \* which Sem the run is about: "posix", "win32", "mac", "atomic", "wasm"
    state,      \* posix.rs Sem.state
    handle,     \* posix.rs Sem.handle: the sem_t cell, [live, value]
    khandle,    \* win32.rs / mac.rs Sem.handle: 0 is null, else a kernel object
    kobjs,      \* the kernel objects created so far, in creation order: [live, value]
    counter,    \* atomic.rs Sem.counter; wasm.rs Sem.value, element 0
    pc,         \* where each thread is
    op,         \* the method each thread is in (or was in last)
    arg,        \* that call's argument
    ret,        \* what each thread's last call returned
    intr,       \* how many times the current call's native wait was interrupted
    pre,        \* what the thread saw of the Sem when it made its call
    res,        \* the local holding a native call's result, per thread
    guards,     \* SemaphoreGuard values each thread holds
    locks,      \* BinaryLock values each thread holds
    now,        \* the real-time clock, <<tv_sec, tv_nsec>>
    timeout,    \* wait_timeout's local timespec, per thread
    hist        \* history: what has happened to the Sem so far

threadVars == <<pc, op, arg, ret, intr, pre, res, guards, locks, timeout>>
posixVars  == <<state, handle>>
kernVars   == <<khandle, kobjs>>
vars == <<backend, state, handle, khandle, kobjs, counter, pc, op, arg, ret,
          intr, pre, res, guards, locks, now, timeout, hist>>

----------------------------------------------------------------------------
(* Bounds of the model. *)

\* the largest initial count handed to init / new
MaxInit == 2
\* the most direct signal() calls during one life of the native semaphore
MaxSignals == 2
\* the most successful native creations of one run
MaxCreate == 2
\* the most "interrupted" results one call meets
MaxIntr == 1
\* the most guards one thread holds at a time
MaxHeld == 2

----------------------------------------------------------------------------
(* posix.rs: the states of the lazy initialisation. *)

UNINIT  == 0
INITING == 1
INITED  == 2

\* a sem_t cell nobody initialised (mem::MaybeUninit::uninit()), or a destroyed one
NoSem == [live |-> FALSE, value |-> 0]

\* a timespec, <<tv_sec, tv_nsec>>
NoTime == <<0, 0>>

NoPre == [state |-> UNINIT, handle |-> NoSem, khandle |-> 0, guards |-> 0,
          destroyed |-> 0, now |-> NoTime]

Hist0 == [created   |-> 0,      \* native creations that succeeded
          destroyed |-> 0,      \* native destructions
          failed    |-> FALSE,  \* a native creation failed
          initial   |-> 0,      \* the count the live semaphore was created with
          nsig      |-> 0,      \* signal() calls made by callers on it
          nwait     |-> 0,      \* wait()/try_wait() calls by callers that took a unit
          ntrue     |-> 0,      \* init() calls that returned true
          returned  |-> FALSE,  \* an init() call has returned
          posted    |-> {}]     \* the threads that saw another thread post since they
                                \* last called wait() or lock()

Sum(f) ==
    LET RECURSIVE S(_)
        S(D) == IF D = {} THEN 0
                ELSE LET x == CHOOSE y \in D : TRUE IN f[x] + S(D \ {x})
    IN S(DOMAIN f)

----------------------------------------------------------------------------
(* The native calls of the POSIX backend, by what they do to the sem_t.   *)
(* Each gives the set of outcomes the call can have.                      *)

sem_init(h, value) ==
    { [res |->  0, handle |-> [live |-> TRUE, value |-> value]],
      [res |-> -1, handle |-> h] }

\* what the waiting calls answer for a sem_t that is not a valid semaphore
invalid_sem(h) == {[res |-> -1, errno |-> "EINVAL", handle |-> h]}

\* sem_wait blocks while the value is 0: then its only outcome is the interruption
sem_wait(h) ==
    IF ~h.live THEN invalid_sem(h)
    ELSE (IF h.value > 0
          THEN {[res |-> 0, errno |-> "", handle |-> [h EXCEPT !.value = @ - 1]]}
          ELSE {})
         \cup {[res |-> -1, errno |-> "EINTR", handle |-> h]}

sem_trywait(h) ==
    IF ~h.live THEN invalid_sem(h)
    ELSE (IF h.value > 0
          THEN {[res |-> 0, errno |-> "", handle |-> [h EXCEPT !.value = @ - 1]]}
          ELSE {[res |-> -1, errno |-> "EAGAIN", handle |-> h]})
         \cup {[res |-> -1, errno |-> "EINTR", handle |-> h]}

sem_post(h) == [h EXCEPT !.value = @ + 1]

sem_destroy(h) == NoSem

----------------------------------------------------------------------------
(* Calls and returns. *)

\* thread t enters method o with argument a and moves to p; r is "none" while
\* the call runs, or what it returned when its first step was also its last
Call(t, o, a, p, r) ==
    /\ pc[t] = "idle"
    /\ pc'   = [pc   EXCEPT ![t] = p]
    /\ op'   = [op   EXCEPT ![t] = o]
    /\ arg'  = [arg  EXCEPT ![t] = a]
    /\ ret'  = [ret  EXCEPT ![t] = r]
    /\ intr' = [intr EXCEPT ![t] = 0]
    /\ pre'  = [pre  EXCEPT ![t] = [state |-> state, handle |-> handle,
                                    khandle |-> khandle, guards |-> guards[t],
                                    destroyed |-> hist.destroyed, now |-> now]]

Return(t, v) ==
    /\ pc'  = [pc  EXCEPT ![t] = "idle"]
    /\ ret' = [ret EXCEPT ![t] = v]

\* a returned bool, as ret holds it
Bool(b) == IF b THEN "true" ELSE "false"

Goto(t, p) ==
    /\ pc' = [pc EXCEPT ![t] = p]
    /\ UNCHANGED ret

\* panic!: the call of thread t ends without a value
panic(t) == Goto(t, "panicked")

\* debug_assert_eq!(left, right): panics on a difference in a build with debug
\* assertions, and is no code at all in a build without them
debug_assert_eq(left, right) ==
    IF left = right THEN {"pass"} ELSE {"pass", "panic"}

\* Rust's AtomicU8::compare_exchange: Ok(previous) or Err(actual)
compare_exchange(cur, current, new) ==
    [ok |-> cur = current, val |-> IF cur = current THEN new ELSE cur]

\* the callers' contract: wait and signal are used on an initialised Sem only
Usable == backend = "posix" /\ state = INITED /\ handle.live

----------------------------------------------------------------------------
(* posix.rs: Sem::init, Sem::await_init, Sem::close, Drop for Sem.        *)

is_init == state = INITED

\* init's exchange, were it to take the Sem over from any state
init_cas_any(s) == [ok |-> TRUE, val |-> INITING]

init_cas(s) == compare_exchange(s, UNINIT, INITING)

init_store(r) ==
    IF r = 0 THEN [state |-> INITED, ret |-> TRUE]
             ELSE [state |-> UNINIT, ret |-> FALSE]

\* await_init, were it not to spin
await_init_never(s) == FALSE

\* await_init, were it to spin until the state is Inited
await_init_until_inited(s) == s # INITED

\* the condition of await_init's spin loop
await_init(s) == s = INITING

\* close's exchange, were it to succeed from any state
close_cas_any(s) == [ok |-> TRUE, val |-> UNINIT]

close_cas(s) == compare_exchange(s, INITED, UNINIT)

posix_init(t, n) ==
    /\ backend = "posix"
    /\ hist.created < MaxCreate
    /\ Call(t, "init", n, IF init_cas(state).ok THEN "sem_init" ELSE "init_lost", "none")
    /\ state' = init_cas(state).val
    /\ UNCHANGED <<backend, handle, kernVars, counter, res, guards, locks, now, timeout, hist>>

posix_sem_init(t) ==
    /\ pc[t] = "sem_init"
    /\ \E o \in sem_init(handle, arg[t]) :
          /\ handle' = o.handle
          /\ res' = [res EXCEPT ![t] = o.res]
          /\ hist' = IF o.res = 0
                     THEN [hist EXCEPT !.created = @ + 1, !.initial = arg[t],
                                       !.nsig = 0, !.nwait = 0]
                     ELSE [hist EXCEPT !.failed = TRUE]
    /\ Goto(t, "init_store")
    /\ UNCHANGED <<backend, state, kernVars, counter, op, arg, intr, pre, guards, locks,
                   now, timeout>>

posix_init_store(t) ==
    /\ pc[t] = "init_store"
    /\ state' = init_store(res[t]).state
    /\ Return(t, Bool(init_store(res[t]).ret))
    /\ hist' = [hist EXCEPT !.ntrue = IF init_store(res[t]).ret THEN @ + 1 ELSE @,
                            !.returned = TRUE]
    /\ UNCHANGED <<backend, handle, kernVars, counter, op, arg, intr, pre, res, guards,
                   locks, now, timeout>>

posix_init_lost(t) ==
    /\ pc[t] = "init_lost"
    /\ IF state # INITED
       THEN Goto(t, "await_init") /\ UNCHANGED hist
       ELSE Return(t, "false") /\ hist' = [hist EXCEPT !.returned = TRUE]
    /\ UNCHANGED <<backend, posixVars, kernVars, counter, op, arg, intr, pre, res, guards,
                   locks, now, timeout>>

posix_await_init(t) ==
    /\ pc[t] = "await_init"
    /\ IF await_init(state)
       THEN UNCHANGED <<pc, ret, hist>>
       ELSE Return(t, "false") /\ hist' = [hist EXCEPT !.returned = TRUE]
    /\ UNCHANGED <<backend, posixVars, kernVars, counter, op, arg, intr, pre, res, guards,
                   locks, now, timeout>>

\* close is called by a caller that has no wait or signal outstanding
Quiet == \A u \in DOMAIN pc : guards[u] = 0 /\ locks[u] = 0

posix_close(t) ==
    /\ backend = "posix"
    /\ Quiet
    /\ Call(t, "close", 0, IF close_cas(state).ok THEN "sem_destroy" ELSE "idle", "unit")
    /\ state' = close_cas(state).val
    /\ UNCHANGED <<backend, handle, kernVars, counter, res, guards, locks, now, timeout, hist>>

\* Drop for Sem: drop(&mut self) has the Sem to itself, and the Sem is gone after it
posix_drop(t) ==
    /\ backend = "posix"
    /\ Quiet
    /\ \A u \in DOMAIN pc : pc[u] = "idle"
    /\ Call(t, "drop", 0, IF close_cas(state).ok THEN "sem_destroy" ELSE "gone", "unit")
    /\ state' = close_cas(state).val
    /\ UNCHANGED <<backend, handle, kernVars, counter, res, guards, locks, now, timeout, hist>>

posix_sem_destroy(t) ==
    /\ pc[t] = "sem_destroy"
    /\ handle' = sem_destroy(handle)
    /\ hist' = [hist EXCEPT !.destroyed = @ + 1]
    /\ pc' = [pc EXCEPT ![t] = IF op[t] = "drop" THEN "gone" ELSE "idle"]
    /\ ret' = [ret EXCEPT ![t] = "unit"]
    /\ UNCHANGED <<backend, state, kernVars, counter, op, arg, intr, pre, res, guards,
                   locks, now, timeout>>

----------------------------------------------------------------------------
(* posix.rs: Sem::wait, Sem::try_wait, Sem::signal.                       *)

\* wait's loop, were an interrupted sem_wait to end it
wait_next_breaks(o) == "break"

\* what wait's loop does with the result of sem_wait
wait_next(o) == IF o.res = -1 THEN "continue" ELSE "break"

\* try_wait's loop, were "would block" to break with true
try_wait_next_eagain_true(o) ==
    IF o.res = -1
    THEN IF o.errno = "EAGAIN" \/ o.errno = "EWOULDBLOCK" THEN "break true" ELSE "continue"
    ELSE "break true"

\* try_wait's loop, were an interrupted sem_trywait to break with false
try_wait_next_eintr_false(o) == IF o.res = -1 THEN "break false" ELSE "break true"

\* what try_wait's loop does with the result of sem_trywait
try_wait_next(o) ==
    IF o.res = -1
    THEN IF o.errno = "EAGAIN" \/ o.errno = "EWOULDBLOCK" THEN "break false" ELSE "continue"
    ELSE "break true"

\* try_lock, were it to make a guard whatever try_wait answered
try_lock_guards_always(r) == 1

\* lib.rs, CountingSemaphore::try_lock: the guards made from try_wait's answer
try_lock_guards(r) == IF r THEN 1 ELSE 0

\* lib.rs, Drop for SemaphoreGuard and Drop for BinaryLock: the signals of one drop
drop_signals == 1

posix_wait(t) ==
    /\ Usable
    /\ Call(t, "wait", 0, "sem_wait", "none")
    /\ hist' = [hist EXCEPT !.posted = @ \ {t}]
    /\ UNCHANGED <<backend, posixVars, kernVars, counter, res, guards, locks, now, timeout>>

\* lib.rs, CountingSemaphore::lock: self.wait(), then the guard
lock(t) ==
    /\ Usable
    /\ Call(t, "lock", 0, "sem_wait", "none")
    /\ hist' = [hist EXCEPT !.posted = @ \ {t}]
    /\ UNCHANGED <<backend, posixVars, kernVars, counter, res, guards, locks, now, timeout>>

\* the loop of Sem::wait, one sem_wait a step; a caller in lock() or in the
\* binary lock() gets its guard as the loop breaks
posix_sem_wait(t) ==
    /\ pc[t] = "sem_wait"
    /\ \E o \in sem_wait(handle) :
          /\ handle' = o.handle
          /\ IF wait_next(o) = "continue"
             THEN \E a \in debug_assert_eq(o.errno, "EINTR") :
                     IF a = "panic"
                     THEN /\ panic(t)
                          /\ UNCHANGED <<intr, guards, locks, hist>>
                     ELSE /\ intr[t] < MaxIntr
                          /\ intr' = [intr EXCEPT ![t] = @ + 1]
                          /\ UNCHANGED <<pc, ret, guards, locks, hist>>
             ELSE /\ Return(t, IF op[t] = "wait" THEN "unit" ELSE "guard")
                  /\ guards' = [guards EXCEPT ![t] = IF op[t] = "lock" THEN @ + 1 ELSE @]
                  /\ locks' = [locks EXCEPT ![t] = IF op[t] = "binary_lock" THEN @ + 1 ELSE @]
                  /\ hist' = IF op[t] = "wait" THEN [hist EXCEPT !.nwait = @ + 1] ELSE hist
                  /\ UNCHANGED intr
    /\ UNCHANGED <<backend, state, kernVars, counter, op, arg, pre, res, now, timeout>>

posix_try_wait(t) ==
    /\ Usable
    /\ Call(t, "try_wait", 0, "sem_trywait", "none")
    /\ UNCHANGED <<backend, posixVars, kernVars, counter, res, guards, locks, now, timeout, hist>>

\* lib.rs, CountingSemaphore::try_lock: self.try_wait(), then Some(guard) or None
try_lock(t) ==
    /\ Usable
    /\ Call(t, "try_lock", 0, "sem_trywait", "none")
    /\ UNCHANGED <<backend, posixVars, kernVars, counter, res, guards, locks, now, timeout, hist>>

\* the loop of Sem::try_wait, one sem_trywait a step
posix_sem_trywait(t) ==
    /\ pc[t] = "sem_trywait"
    /\ \E o \in sem_trywait(handle) :
          /\ handle' = o.handle
          /\ IF try_wait_next(o) = "continue"
             THEN \E a \in debug_assert_eq(o.errno, "EINTR") :
                     IF a = "panic"
                     THEN /\ panic(t)
                          /\ UNCHANGED <<intr, guards, hist>>
                     ELSE /\ intr[t] < MaxIntr
                          /\ intr' = [intr EXCEPT ![t] = @ + 1]
                          /\ UNCHANGED <<pc, ret, guards, hist>>
             ELSE LET r == try_wait_next(o) = "break true" IN
                  /\ Return(t, IF op[t] = "try_wait" THEN Bool(r)
                                ELSE IF try_lock_guards(r) > 0 THEN "Some" ELSE "None")
                  /\ guards' = [guards EXCEPT ![t] =
                                   IF op[t] = "try_lock" THEN @ + try_lock_guards(r) ELSE @]
                  /\ hist' = IF op[t] = "try_wait" /\ r
                             THEN [hist EXCEPT !.nwait = @ + 1] ELSE hist
                  /\ UNCHANGED intr
    /\ UNCHANGED <<backend, state, kernVars, counter, op, arg, pre, res, locks, now, timeout>>

posix_signal(t) ==
    /\ Usable
    /\ Call(t, "signal", 0, "idle", "unit")
    /\ handle' = sem_post(handle)
    /\ hist' = [hist EXCEPT !.nsig = @ + 1, !.posted = @ \cup (DOMAIN pc \ {t})]
    /\ UNCHANGED <<backend, state, kernVars, counter, res, guards, locks, now, timeout>>

RECURSIVE sem_post_times(_, _)
sem_post_times(h, k) == IF k = 0 THEN h ELSE sem_post_times(sem_post(h), k - 1)

\* lib.rs, Drop for SemaphoreGuard: self.sem.signal()
SemaphoreGuard_drop(t) ==
    /\ guards[t] > 0
    /\ Call(t, "drop_guard", 0, "idle", "unit")
    /\ guards' = [guards EXCEPT ![t] = @ - 1]
    /\ handle' = sem_post_times(handle, drop_signals)
    /\ hist' = [hist EXCEPT !.posted = @ \cup (DOMAIN pc \ {t})]
    /\ UNCHANGED <<backend, state, kernVars, counter, res, locks, now, timeout>>

----------------------------------------------------------------------------
(* One caller on a POSIX Sem that new_uninit() made.                      *)

ThreadInit(T) ==
    /\ pc      = [t \in T |-> "idle"]
    /\ op      = [t \in T |-> "none"]
    /\ arg     = [t \in T |-> 0]
    /\ ret     = [t \in T |-> "none"]
    /\ intr    = [t \in T |-> 0]
    /\ pre     = [t \in T |-> NoPre]
    /\ res     = [t \in T |-> 0]
    /\ guards  = [t \in T |-> 0]
    /\ locks   = [t \in T |-> 0]
    /\ timeout = [t \in T |-> NoTime]

\* posix.rs, Sem::new_uninit
new_uninit ==
    /\ state = UNINIT
    /\ handle = NoSem

NoKernel ==
    /\ khandle = 0
    /\ kobjs = <<>>
    /\ counter = FALSE
    /\ now = NoTime

InitSeq ==
    /\ backend = "posix"
    /\ new_uninit
    /\ NoKernel
    /\ ThreadInit({1})
    /\ hist = Hist0

NextSeq ==
    \/ \E t \in DOMAIN pc, n \in 0..MaxInit : posix_init(t, n)
    \/ \E t \in DOMAIN pc : posix_sem_init(t)
    \/ \E t \in DOMAIN pc : posix_init_store(t)
    \/ \E t \in DOMAIN pc : posix_init_lost(t)
    \/ \E t \in DOMAIN pc : posix_close(t)
    \/ \E t \in DOMAIN pc : posix_drop(t)
    \/ \E t \in DOMAIN pc : posix_sem_destroy(t)
    \/ \E t \in DOMAIN pc : posix_wait(t)
    \/ \E t \in DOMAIN pc : posix_sem_wait(t)
    \/ \E t \in DOMAIN pc : posix_try_wait(t)
    \/ \E t \in DOMAIN pc : posix_sem_trywait(t)
    \/ \E t \in DOMAIN pc : hist.nsig < MaxSignals /\ posix_signal(t)
    \/ \E t \in DOMAIN pc : guards[t] < MaxHeld /\ lock(t)
    \/ \E t \in DOMAIN pc : guards[t] < MaxHeld /\ try_lock(t)
    \/ \E t \in DOMAIN pc : SemaphoreGuard_drop(t)

SpecSeq == InitSeq /\ [][NextSeq]_vars

----------------------------------------------------------------------------
(* Claims about one caller (SpecSeq).                                     *)

Returned(t, o) == pc[t] = "idle" /\ op[t] = o /\ ret[t] # "none"

\* the count the callers' calls add up to: the initial count, plus their
\* signals, less their successful waits, less the guards they hold
Expected == hist.initial + hist.nsig - hist.nwait - Sum(guards)

\* C1: on the POSIX Sem, a try_wait() that returns true found the count
\* N + signals - earlier successful waits above 0 and lowered it by one, and one
\* that returns false found it at 0 and left it there; so new(N) and N
\* try_wait() calls return true and the next one false.
C1_TryWaitCounts ==
    \A t \in DOMAIN pc :
        Returned(t, "try_wait") =>
            /\ ret[t] = "true"  => Expected >= 0 /\ handle.value = pre[t].handle.value - 1
            /\ ret[t] = "false" => Expected = 0 /\ handle = pre[t].handle
            /\ hist.nsig = 0 /\ Sum(guards) = 0 =>
                  /\ ret[t] = "true"  => hist.nwait <= hist.initial
                  /\ ret[t] = "false" => hist.nwait = hist.initial

\* new(N), a signal, and N + 1 try_wait() calls that returned true, then one that
\* returned false
C1_Witness ==
    /\ Returned(1, "try_wait") /\ ret[1] = "false"
    /\ hist.initial > 0 /\ hist.nsig > 0
    /\ hist.nwait = hist.initial + hist.nsig

\* C2: in every state of a run of lock(), try_lock(), guard drops, signal() and
\* try_wait() calls, count = initial + signals - successful waits - guards alive,
\* and a try_lock() that returned None made no guard and changed nothing.
C2_GuardIsOneDecrement ==
    /\ Usable => handle.value = Expected
    /\ \A t \in DOMAIN pc :
          /\ Returned(t, "try_lock") /\ ret[t] = "None" =>
                guards[t] = pre[t].guards /\ handle = pre[t].handle
          /\ Returned(t, "try_lock") /\ ret[t] = "Some" =>
                guards[t] = pre[t].guards + 1
          /\ Returned(t, "lock") => guards[t] = pre[t].guards + 1
          /\ Returned(t, "drop_guard") =>
                guards[t] = pre[t].guards - 1 /\ handle.value = pre[t].handle.value + 1

\* the crate's example, after "lock; try_wait = true; try_wait = false": new(0),
\* two signals, one guard alive, one unit taken, and try_wait() said false
C2_Witness ==
    /\ Returned(1, "try_wait") /\ ret[1] = "false"
    /\ hist.initial = 0 /\ hist.nsig = 2 /\ hist.nwait = 1
    /\ guards[1] = 1

\* C3: on a Sem made by new_uninit(), the init(n) whose creation succeeds returns
\* true; an init(m) on the initialised Sem returns false and leaves it initialised
\* with the count it had, whatever m is.
C3_SecondInitFails ==
    \A t \in DOMAIN pc :
        Returned(t, "init") =>
            /\ pre[t].state = INITED =>
                  ret[t] = "false" /\ state = INITED /\ handle = pre[t].handle
            /\ pre[t].state = UNINIT /\ res[t] = 0 =>
                  /\ ret[t] = "true" /\ state = INITED
                  /\ handle = [live |-> TRUE, value |-> arg[t]]
            /\ ret[t] = "true" => pre[t].state = UNINIT

\* an init(m) that returned false on a Sem whose count is not m
C3_Witness ==
    /\ Returned(1, "init") /\ ret[1] = "false"
    /\ pre[1].state = INITED
    /\ arg[1] # hist.initial /\ handle.value # arg[1] /\ hist.nsig > 0

\* C4: close() on an initialised Sem destroys the native semaphore once and
\* leaves the Sem uninitialised; a close() (or drop) of an uninitialised Sem
\* destroys nothing; init(n) after close returns true with count n; destroys
\* never exceed successful creations.
C4_CloseOnce ==
    /\ hist.destroyed <= hist.created
    /\ handle.live <=> hist.created = hist.destroyed + 1
    /\ \A t \in DOMAIN pc :
          /\ (Returned(t, "close") \/ pc[t] = "gone") =>
                /\ state = UNINIT /\ ~handle.live
                /\ hist.destroyed = pre[t].destroyed + (IF pre[t].state = INITED THEN 1 ELSE 0)
          /\ Returned(t, "init") /\ pre[t].destroyed > 0 /\ pre[t].state = UNINIT /\ res[t] = 0 =>
                /\ ret[t] = "true" /\ state = INITED
                /\ handle = [live |-> TRUE, value |-> arg[t]]

\* a second close() in a row, after an init that followed a close
C4_Witness ==
    /\ Returned(1, "close") /\ pre[1].state = UNINIT
    /\ hist.created = 2 /\ hist.destroyed = 2

----------------------------------------------------------------------------
(* win32.rs and mac.rs: Sem::init.  The handle is an AtomicPtr, null      *)
(* (0) until an init publishes the kernel object it created.              *)

\* the most threads that race init()
RaceThreads == 2
\* the largest initial count a racing init() hands over
MaxRaceInit == 1

\* CreateSemaphoreW / semaphore_create: a new kernel object, or failure (null)
kernel_create(objs, value) ==
    { [handle |-> Len(objs) + 1, objs |-> Append(objs, [live |-> TRUE, value |-> value])],
      [handle |-> 0, objs |-> objs] }

\* CloseHandle / semaphore_destroy; on a null handle the call fails and does nothing
kernel_destroy(objs, h) ==
    IF h = 0 THEN objs ELSE [objs EXCEPT ![h] = [live |-> FALSE, value |-> 0]]

\* the exchange that publishes the created handle
kernel_init_cas(cur, h) == compare_exchange(cur, 0, h)

\* init(), were it to answer true whenever its exchange succeeded
win32_init_ok_always(h) == TRUE

\* win32.rs: the value of init() when its exchange succeeded
win32_init_ok(h) == h # 0

win32_init(t, n) ==
    /\ backend = "win32"
    /\ hist.created < MaxCreate
    /\ Call(t, "init", n, IF khandle # 0 THEN "idle" ELSE "CreateSemaphoreW",
            IF khandle # 0 THEN "false" ELSE "none")
    /\ hist' = IF khandle # 0 THEN [hist EXCEPT !.returned = TRUE] ELSE hist
    /\ UNCHANGED <<backend, posixVars, kernVars, counter, res, guards, locks, now, timeout>>

win32_CreateSemaphoreW(t) ==
    /\ pc[t] = "CreateSemaphoreW"
    /\ \E o \in kernel_create(kobjs, arg[t]) :
          /\ kobjs' = o.objs
          /\ res' = [res EXCEPT ![t] = o.handle]
          /\ hist' = IF o.handle # 0 THEN [hist EXCEPT !.created = @ + 1]
                                     ELSE [hist EXCEPT !.failed = TRUE]
    /\ Goto(t, "win32_cas")
    /\ UNCHANGED <<backend, posixVars, khandle, counter, op, arg, intr, pre, guards, locks,
                   now, timeout>>

win32_init_cas(t) ==
    /\ pc[t] = "win32_cas"
    /\ khandle' = kernel_init_cas(khandle, res[t]).val
    /\ IF kernel_init_cas(khandle, res[t]).ok
       THEN /\ Return(t, Bool(win32_init_ok(res[t])))
            /\ hist' = IF win32_init_ok(res[t])
                       THEN [hist EXCEPT !.ntrue = @ + 1, !.initial = arg[t], !.nsig = 0,
                                         !.nwait = 0, !.returned = TRUE]
                       ELSE [hist EXCEPT !.returned = TRUE]
       ELSE Goto(t, "CloseHandle") /\ UNCHANGED hist
    /\ UNCHANGED <<backend, posixVars, kobjs, counter, op, arg, intr, pre, res, guards, locks,
                   now, timeout>>

\* the branch of init() that lost the exchange, were it to keep the handle open
win32_init_lost_leaks(t) ==
    /\ pc[t] = "CloseHandle"
    /\ Return(t, "false")
    /\ hist' = [hist EXCEPT !.returned = TRUE]
    /\ UNCHANGED <<backend, posixVars, kernVars, counter, op, arg, intr, pre, res, guards,
                   locks, now, timeout>>

win32_init_lost(t) ==
    /\ pc[t] = "CloseHandle"
    /\ kobjs' = kernel_destroy(kobjs, res[t])
    /\ Return(t, "false")
    /\ hist' = [hist EXCEPT !.destroyed = IF res[t] # 0 THEN @ + 1 ELSE @, !.returned = TRUE]
    /\ UNCHANGED <<backend, posixVars, khandle, counter, op, arg, intr, pre, res, guards,
                   locks, now, timeout>>

mac_init(t, n) ==
    /\ backend = "mac"
    /\ hist.created < MaxCreate
    /\ Call(t, "init", n, IF khandle # 0 THEN "idle" ELSE "semaphore_create",
            IF khandle # 0 THEN "false" ELSE "none")
    /\ hist' = IF khandle # 0 THEN [hist EXCEPT !.returned = TRUE] ELSE hist
    /\ UNCHANGED <<backend, posixVars, kernVars, counter, res, guards, locks, now, timeout>>

mac_semaphore_create(t) ==
    /\ pc[t] = "semaphore_create"
    /\ \E o \in kernel_create(kobjs, arg[t]) :
          /\ kobjs' = o.objs
          /\ res' = [res EXCEPT ![t] = o.handle]
          /\ IF o.handle # 0
             THEN /\ Goto(t, "mac_cas")
                  /\ hist' = [hist EXCEPT !.created = @ + 1]
             ELSE /\ Return(t, "false")
                  /\ hist' = [hist EXCEPT !.failed = TRUE, !.returned = TRUE]
    /\ UNCHANGED <<backend, posixVars, khandle, counter, op, arg, intr, pre, guards, locks,
                   now, timeout>>

mac_init_cas(t) ==
    /\ pc[t] = "mac_cas"
    /\ khandle' = kernel_init_cas(khandle, res[t]).val
    /\ IF kernel_init_cas(khandle, res[t]).ok
       THEN /\ Return(t, "true")
            /\ hist' = [hist EXCEPT !.ntrue = @ + 1, !.initial = arg[t], !.nsig = 0,
                                    !.nwait = 0, !.returned = TRUE]
       ELSE Goto(t, "semaphore_destroy") /\ UNCHANGED hist
    /\ UNCHANGED <<backend, posixVars, kobjs, counter, op, arg, intr, pre, res, guards, locks,
                   now, timeout>>

mac_init_lost(t) ==
    /\ pc[t] = "semaphore_destroy"
    /\ kobjs' = kernel_destroy(kobjs, res[t])
    /\ Return(t, "false")
    /\ hist' = [hist EXCEPT !.destroyed = @ + 1, !.returned = TRUE]
    /\ UNCHANGED <<backend, posixVars, khandle, counter, op, arg, intr, pre, res, guards,
                   locks, now, timeout>>

----------------------------------------------------------------------------
(* Threads racing init() on one Sem that new_uninit() made, on each of    *)
(* the lazily initialised backends; nobody closes it.                     *)

InitRace ==
    /\ backend \in {"posix", "win32", "mac"}
    /\ new_uninit
    /\ NoKernel
    /\ ThreadInit(1..RaceThreads)
    /\ hist = Hist0

NextRace ==
    \/ \E t \in DOMAIN pc, n \in 0..MaxRaceInit : posix_init(t, n)
    \/ \E t \in DOMAIN pc : posix_sem_init(t)
    \/ \E t \in DOMAIN pc : posix_init_store(t)
    \/ \E t \in DOMAIN pc : posix_init_lost(t)
    \/ \E t \in DOMAIN pc : posix_await_init(t)
    \/ \E t \in DOMAIN pc, n \in 0..MaxRaceInit : win32_init(t, n)
    \/ \E t \in DOMAIN pc : win32_CreateSemaphoreW(t)
    \/ \E t \in DOMAIN pc : win32_init_cas(t)
    \/ \E t \in DOMAIN pc : win32_init_lost(t)
    \/ \E t \in DOMAIN pc, n \in 0..MaxRaceInit : mac_init(t, n)
    \/ \E t \in DOMAIN pc : mac_semaphore_create(t)
    \/ \E t \in DOMAIN pc : mac_init_cas(t)
    \/ \E t \in DOMAIN pc : mac_init_lost(t)

SpecRace == InitRace /\ [][NextRace]_vars

\* C5: on the POSIX backend, when threads race init() on an uninitialised Sem,
\* nobody closes it and sem_init succeeds: at most one call returns true, exactly
\* one has once every call has returned, and from the moment any call returns
\* is_init() is true.
C5_OneInitWins ==
    backend = "posix" /\ ~hist.failed =>
        /\ hist.ntrue <= 1
        /\ hist.returned => is_init
        /\ hist.returned /\ (\A t \in DOMAIN pc : pc[t] = "idle") => hist.ntrue = 1
        /\ \A t \in DOMAIN pc : Returned(t, "init") /\ ret[t] = "true" =>
              \A u \in DOMAIN pc \ {t} : ~(Returned(u, "init") /\ ret[u] = "true")

\* two calls raced: one found the Sem in Initing and returned false, the other won
C5_Witness ==
    /\ backend = "posix" /\ ~hist.failed
    /\ \E t, u \in DOMAIN pc :
          /\ Returned(t, "init") /\ ret[t] = "true"
          /\ Returned(u, "init") /\ ret[u] = "false" /\ pre[u].state = INITING

\* C6 as stated: on every lazily initialised backend the native creation call
\* is executed at most once when threads race init(): the creation counter
\* never exceeds 1.
C6_CreatedAtMostOnce == hist.created <= 1

KernelIds == 1..Len(kobjs)

\* the thread t still holds the handle h it created, inside its init()
HoldsCreated(t, h) ==
    /\ pc[t] \in {"win32_cas", "CloseHandle", "mac_cas", "semaphore_destroy"}
    /\ res[t] = h

\* C6, amended: POSIX creates the native semaphore at most once.  On Windows
\* and Mach every racing init() that read a null handle creates an object, at
\* most one object a thread; the published handle is a live object, and every
\* other live object is held by the init() that created it, which destroys it
\* before it returns: with no init() in flight at most one object is alive.
C6_AtMostOnePublished ==
    /\ backend = "posix" => hist.created <= 1
    /\ backend \in {"win32", "mac"} =>
          /\ hist.created = Len(kobjs)
          /\ hist.created <= Cardinality(DOMAIN pc)
          /\ hist.ntrue <= 1
          /\ khandle # 0 => kobjs[khandle].live
          /\ \A h \in KernelIds :
                kobjs[h].live => h = khandle \/ \E t \in DOMAIN pc : HoldsCreated(t, h)
          /\ \A h \in KernelIds :
                ~kobjs[h].live => h # khandle /\ hist.destroyed >= 1
          /\ hist.destroyed <= hist.created

\* two racing init() calls have returned on a kernel-object backend: two objects
\* were created, one is published and alive, the other was destroyed
C6_Witness ==
    /\ backend \in {"win32", "mac"}
    /\ \A t \in DOMAIN pc : pc[t] = "idle"
    /\ hist.created >= 2 /\ hist.destroyed = hist.created - 1
    /\ khandle # 0 /\ kobjs[khandle].live

----------------------------------------------------------------------------
(* atomic.rs (and binary/atomic.rs): the binary Sem on an AtomicBool.     *)

\* the most threads that share a binary semaphore
BinaryThreads == 3

\* Rust's AtomicBool::compare_and_swap: the value left in the cell, and the
\* previous value, which is what the call returns
compare_and_swap(cur, current, new) ==
    [val |-> IF cur = current THEN new ELSE cur, prev |-> cur]

\* atomic.rs, Sem::try_wait
atomic_try_wait(c) == compare_and_swap(c, TRUE, FALSE)

\* atomic.rs, Sem::signal
atomic_signal(c) == TRUE

\* atomic.rs, BinarySemaphore::new: Self::new(false)
atomic_new == counter = FALSE

\* atomic.rs, BinarySemaphore::lock; a thread locks when it holds no lock
atomic_lock(t) ==
    /\ backend = "atomic"
    /\ locks[t] = 0
    /\ Call(t, "binary_lock", 0, "atomic_try_wait", "none")
    /\ UNCHANGED <<backend, posixVars, kernVars, counter, res, guards, locks, now, timeout, hist>>

\* one turn of lock's loop, while self.try_wait() { spin_loop_hint() }, and the
\* BinaryLock made as the loop ends
atomic_lock_try_wait(t) ==
    /\ pc[t] = "atomic_try_wait"
    /\ counter' = atomic_try_wait(counter).val
    /\ IF atomic_try_wait(counter).prev
       THEN UNCHANGED <<pc, ret, locks>>
       ELSE /\ Return(t, "guard")
            /\ locks' = [locks EXCEPT ![t] = @ + 1]
    /\ UNCHANGED <<backend, posixVars, kernVars, op, arg, intr, pre, res, guards, now,
                   timeout, hist>>

\* lib.rs, Drop for BinaryLock, with unlock = Sem::signal of atomic.rs
atomic_BinaryLock_drop(t) ==
    /\ backend = "atomic"
    /\ locks[t] > 0
    /\ Call(t, "drop_lock", 0, "idle", "unit")
    /\ locks' = [locks EXCEPT ![t] = @ - 1]
    /\ counter' = atomic_signal(counter)
    /\ UNCHANGED <<backend, posixVars, kernVars, res, guards, now, timeout, hist>>

InitAtomic ==
    /\ backend = "atomic"
    /\ new_uninit
    /\ khandle = 0 /\ kobjs = <<>> /\ now = NoTime
    /\ atomic_new
    /\ ThreadInit(1..BinaryThreads)
    /\ hist = Hist0

NextAtomic ==
    \/ \E t \in DOMAIN pc : atomic_lock(t)
    \/ \E t \in DOMAIN pc : atomic_lock_try_wait(t)
    \/ \E t \in DOMAIN pc : atomic_BinaryLock_drop(t)

SpecAtomic == InitAtomic /\ [][NextAtomic]_vars

\* C7: for the atomic-boolean Sem made by BinarySemaphore::new(), under any
\* interleaving of threads calling lock() and dropping the BinaryLock, at most
\* one BinaryLock is alive at any time.
C7_AtMostOneLock == Sum(locks) <= 1

----------------------------------------------------------------------------
(* lib.rs: a CountingSemaphore used as a BinarySemaphore (the blanket     *)
(* impl), here the POSIX Sem.                                             *)

\* BinarySemaphore::new for T: CountingSemaphore is T::new(1)
binary_new_count == 1

\* Drop for BinaryLock: (self.unlock)(self.sem), unlock being T::signal
unlock_signals_twice == 1 + 1

unlock_signals == 1

\* BinarySemaphore::lock for T: CountingSemaphore: T::wait(self), then the BinaryLock
binary_lock(t) ==
    /\ Usable
    /\ Call(t, "binary_lock", 0, "sem_wait", "none")
    /\ hist' = [hist EXCEPT !.posted = @ \ {t}]
    /\ UNCHANGED <<backend, posixVars, kernVars, counter, res, guards, locks, now, timeout>>

BinaryLock_drop(t) ==
    /\ backend = "posix"
    /\ locks[t] > 0
    /\ Call(t, "drop_lock", 0, "idle", "unit")
    /\ locks' = [locks EXCEPT ![t] = @ - 1]
    /\ handle' = sem_post_times(handle, unlock_signals)
    /\ hist' = [hist EXCEPT !.posted = @ \cup (DOMAIN pc \ {t})]
    /\ UNCHANGED <<backend, state, kernVars, counter, res, guards, now, timeout>>

\* the Sem that BinarySemaphore::new() returned: Sem::new(1), whose init succeeded
InitBinary ==
    /\ backend = "posix"
    /\ state = INITED
    /\ handle = [live |-> TRUE, value |-> binary_new_count]
    /\ NoKernel
    /\ ThreadInit(1..BinaryThreads)
    /\ hist = [Hist0 EXCEPT !.created = 1, !.initial = binary_new_count, !.ntrue = 1,
                             !.returned = TRUE]

NextBinary ==
    \/ \E t \in DOMAIN pc : locks[t] < MaxHeld /\ binary_lock(t)
    \/ \E t \in DOMAIN pc : posix_sem_wait(t)
    \/ \E t \in DOMAIN pc : BinaryLock_drop(t)

SpecBinary == InitBinary /\ [][NextBinary]_vars

\* C8: a CountingSemaphore made by BinarySemaphore::new() and used only through
\* lock() and guard drops has count 0 or 1 and count + live BinaryLock guards = 1
\* in every state, so at most one guard is alive at a time.
C8_BinaryAdapter ==
    /\ Usable
    /\ handle.value \in {0, 1}
    /\ handle.value + Sum(locks) = 1
    /\ Sum(locks) <= 1

\* one thread holds the BinaryLock while another is blocked in lock()
C8_Witness ==
    \E t, u \in DOMAIN pc :
        /\ locks[t] = 1 /\ handle.value = 0
        /\ pc[u] = "sem_wait" /\ op[u] = "binary_lock" /\ u # t

----------------------------------------------------------------------------
(* Threads that wait on one POSIX counting semaphore, and a thread that   *)
(* signals it.                                                            *)

\* the most threads that wait
BlockWaiters == 2
\* the most signal() calls of the run
MaxBlockSignals == 1

\* the thread that signals
Poster == 0

\* posix.rs, Sem::new(0), when its init succeeded
InitBlock ==
    /\ backend = "posix"
    /\ state = INITED
    /\ handle = [live |-> TRUE, value |-> 0]
    /\ hist = [Hist0 EXCEPT !.created = 1, !.ntrue = 1, !.returned = TRUE]
    /\ NoKernel
    /\ ThreadInit(0..BlockWaiters)

\* a waiter calls lock() when it holds no guard, which calls wait(), and drops
\* its guard
NextBlock ==
    \/ \E t \in 1..BlockWaiters : guards[t] = 0 /\ lock(t)
    \/ \E t \in 1..BlockWaiters : posix_sem_wait(t)
    \/ \E t \in 1..BlockWaiters : SemaphoreGuard_drop(t)
    \/ hist.nsig < MaxBlockSignals /\ posix_signal(Poster)

\* the step in which sem_wait takes a unit and wait() returns
sem_wait_returns(t) == posix_sem_wait(t) /\ pc'[t] = "idle"

\* a thread blocked in sem_wait is woken once the count is above 0 and stays there
SpecBlock ==
    /\ InitBlock
    /\ [][NextBlock]_vars
    /\ \A t \in 1..BlockWaiters : WF_vars(sem_wait_returns(t))

\* a wait() or lock() that found the count at 0 returned only after another
\* thread posted, and every return took one unit of the count
C9_Safety ==
    /\ handle.value >= 0
    /\ handle.value = Expected
    /\ \A t \in DOMAIN pc :
          (Returned(t, "wait") \/ Returned(t, "lock")) /\ pre[t].handle.value = 0 =>
              t \in hist.posted

\* C9: a thread that calls lock() or wait() at count 0 does not return before
\* another thread has called signal() or dropped a guard; each post lets at most
\* one waiter return (the count never goes below 0 and every return takes one
\* unit); and under fair scheduling a waiter returns once the count is above 0,
\* unless a competing waiter takes the count.
C9_BlockedUntilSignal ==
    /\ []C9_Safety
    /\ \A t \in 1..BlockWaiters :
          (pc[t] = "sem_wait" /\ handle.value > 0) ~> (pc[t] = "idle" \/ handle.value = 0)

\* a lock() that was called at count 0 has returned, after a post of another
\* thread, while another waiter is still blocked
C9_Witness ==
    \E t, u \in DOMAIN pc :
        /\ Returned(t, "lock") /\ pre[t].handle.value = 0
        /\ t \in hist.posted /\ guards[t] > 0 /\ intr[t] > 0
        /\ pc[u] = "sem_wait" /\ handle.value = 0

----------------------------------------------------------------------------
(* posix.rs, Sem::wait_timeout: the deadline and the timed wait. *)

\* the largest tv_nsec the carry test of wait_timeout lets through
NanosMax == 999999999

NanosPerSec == NanosMax + 1

\* the last second the clock of a run reaches
MaxSec == 2
\* the largest whole-second part of the clock at the call, and of a duration
MaxWhole == 1

\* the nanosecond parts the clock and the durations take
Nanos == {0, 1, 400000000, 600000000, NanosMax}

\* Duration as <<as_secs(), subsec_nanos()>>
Durations == (0..MaxWhole) \X Nanos

\* the order of two timespecs whose tv_nsec lie in 0..NanosMax
Before(a, b) == a[1] < b[1] \/ (a[1] = b[1] /\ a[2] < b[2])

\* saturating_add on time_t and c_long, below the types' largest value
saturating_add(a, b) == a + b

\* wait_timeout's arithmetic on the timespec that clock_gettime filled
deadline(T, d) ==
    LET tv_sec  == saturating_add(T[1], d[1])
        tv_nsec == saturating_add(T[2], d[2])
    IN  IF tv_nsec > NanosMax
        THEN <<saturating_add(tv_sec, 1), 0>>
        ELSE <<tv_sec, tv_nsec>>

\* libc::sem_timedwait at clock reading T: takes a unit when there is one, fails
\* with ETIMEDOUT once the deadline has passed, blocks otherwise
sem_timedwait(h, abs_timeout, T) ==
    IF ~h.live THEN invalid_sem(h)
    ELSE (IF h.value > 0
          THEN {[res |-> 0, errno |-> "", handle |-> [h EXCEPT !.value = @ - 1]]}
          ELSE IF ~Before(T, abs_timeout)
               THEN {[res |-> -1, errno |-> "ETIMEDOUT", handle |-> h]}
               ELSE {})
         \cup {[res |-> -1, errno |-> "EINTR", handle |-> h]}

\* wait_timeout's loop, were a timed-out sem_timedwait to break with true
wait_timeout_next_timeout_true(o) ==
    IF o.res = -1
    THEN IF o.errno = "EAGAIN" \/ o.errno = "EWOULDBLOCK" THEN "break false"
         ELSE IF o.errno = "ETIMEDOUT" THEN "break true"
         ELSE IF o.errno # "EINTR" THEN "panic" ELSE "continue"
    ELSE "break true"

\* what wait_timeout's loop does with the result of sem_timedwait
wait_timeout_next(o) ==
    IF o.res = -1
    THEN IF o.errno = "EAGAIN" \/ o.errno = "EWOULDBLOCK" \/ o.errno = "ETIMEDOUT"
         THEN "break false"
         ELSE IF o.errno # "EINTR" THEN "panic" ELSE "continue"
    ELSE "break true"

\* the loop, were it to work the deadline out again from the clock on a retry
loop_timeout_recomputed(ts, T, d) == deadline(T, d)

\* the timespec the next turn of wait_timeout's loop passes to sem_timedwait:
\* the loop assigns nothing to timeout
loop_timeout(ts, T, d) == ts

\* wait_timeout(d) up to its loop: clock_gettime, then the deadline
posix_wait_timeout(t, d) ==
    /\ Usable
    /\ Call(t, "wait_timeout", d, "sem_timedwait", "none")
    /\ timeout' = [timeout EXCEPT ![t] = deadline(now, d)]
    /\ UNCHANGED <<backend, posixVars, kernVars, counter, res, guards, locks, now, hist>>

\* the loop of Sem::wait_timeout, one sem_timedwait a step
posix_sem_timedwait(t) ==
    /\ pc[t] = "sem_timedwait"
    /\ \E o \in sem_timedwait(handle, timeout[t], now) :
          /\ handle' = o.handle
          /\ IF wait_timeout_next(o) = "panic"
             THEN /\ panic(t)
                  /\ UNCHANGED <<intr, timeout, hist>>
             ELSE IF wait_timeout_next(o) = "continue"
             THEN /\ intr[t] < MaxIntr
                  /\ intr' = [intr EXCEPT ![t] = @ + 1]
                  /\ timeout' = [timeout EXCEPT ![t] = loop_timeout(@, now, arg[t])]
                  /\ UNCHANGED <<pc, ret, hist>>
             ELSE LET r == wait_timeout_next(o) = "break true" IN
                  /\ Return(t, Bool(r))
                  /\ hist' = IF r THEN [hist EXCEPT !.nwait = @ + 1] ELSE hist
                  /\ UNCHANGED <<intr, timeout>>
    /\ UNCHANGED <<backend, state, kernVars, counter, op, arg, pre, res, guards, locks, now>>

\* CLOCK_REALTIME moves on
clock_tick ==
    /\ \E T \in (0..MaxSec) \X Nanos : Before(now, T) /\ now' = T
    /\ UNCHANGED <<backend, posixVars, kernVars, counter, threadVars, hist>>

\* posix.rs, Sem::new(n), when its init succeeded, at some clock reading
InitTimed ==
    /\ backend = "posix"
    /\ state = INITED
    /\ \E n \in 0..1 :
          /\ handle = [live |-> TRUE, value |-> n]
          /\ hist = [Hist0 EXCEPT !.created = 1, !.initial = n, !.ntrue = 1, !.returned = TRUE]
    /\ khandle = 0 /\ kobjs = <<>> /\ counter = FALSE
    /\ now \in (0..MaxWhole) \X Nanos
    /\ ThreadInit({1})

NextTimed ==
    \/ \E t \in DOMAIN pc, d \in Durations : posix_wait_timeout(t, d)
    \/ \E t \in DOMAIN pc : posix_sem_timedwait(t)
    \/ clock_tick

SpecTimed == InitTimed /\ [][NextTimed]_vars

\* the clock reading at the call plus the duration, with tv_nsec in 0..NanosMax;
\* two such timespecs are equal exactly when their totals in nanoseconds are
NowPlusDuration(t) ==
    LET T == pre[t].now
        d == arg[t]
        n == T[2] + d[2]
    IN  IF n >= NanosPerSec
        THEN <<T[1] + d[1] + 1, n - NanosPerSec>>
        ELSE <<T[1] + d[1], n>>

\* C10: the deadline wait_timeout(d) hands to sem_timedwait is the clock reading
\* at the call plus d, also when the nanosecond parts carry; a call at count 0
\* that nobody signals returns false, and not before d has elapsed.
C10_DeadlineIsNowPlusDuration ==
    \A t \in DOMAIN pc :
        op[t] = "wait_timeout" =>
            /\ timeout[t] = NowPlusDuration(t)
            /\ pc[t] = "idle" /\ pre[t].handle.value = 0 =>
                   /\ ret[t] = "false"
                   /\ ~Before(now, NowPlusDuration(t))

----------------------------------------------------------------------------
(* posix.rs, Sem::wait_timeout, with a thread that signals.               *)

\* the most signal() calls while a timed wait runs
MaxTimedSignals == 1

\* posix.rs, Sem::new(n), when its init succeeded, at some clock reading
InitTimedPost ==
    /\ backend = "posix"
    /\ state = INITED
    /\ \E n \in 0..1 :
          /\ handle = [live |-> TRUE, value |-> n]
          /\ hist = [Hist0 EXCEPT !.created = 1, !.initial = n, !.ntrue = 1, !.returned = TRUE]
    /\ khandle = 0 /\ kobjs = <<>> /\ counter = FALSE
    /\ now \in {0} \X Nanos
    /\ ThreadInit({Poster, 1})

\* CLOCK_REALTIME reaches the next whole second
clock_second ==
    /\ now[1] < MaxSec
    /\ now' = <<now[1] + 1, 0>>
    /\ UNCHANGED <<backend, posixVars, kernVars, counter, threadVars, hist>>

NextTimedPost ==
    \/ \E d \in Durations : posix_wait_timeout(1, d)
    \/ posix_sem_timedwait(1)
    \/ hist.nsig < MaxTimedSignals /\ posix_signal(Poster)
    \/ clock_second

SpecTimedPost == InitTimedPost /\ [][NextTimedPost]_vars

\* the step of thread t ends its wait_timeout call
wait_timeout_returns(t) == pc[t] = "sem_timedwait" /\ pc'[t] = "idle"

\* the step in which wait_timeout returns true took one unit of a count above 0;
\* the step in which it returns false found the count at 0 with the deadline
\* reached and left the count alone; an interrupted sem_timedwait changes nothing
C11_Step ==
    \A t \in DOMAIN pc :
        /\ wait_timeout_returns(t) /\ ret'[t] = "true" =>
              handle.value > 0 /\ handle'.value = handle.value - 1
        /\ wait_timeout_returns(t) /\ ret'[t] = "false" =>
              handle.value = 0 /\ handle' = handle /\ ~Before(now, timeout[t])
        /\ pc[t] = "sem_timedwait" /\ pc'[t] = "sem_timedwait" /\ intr'[t] # intr[t] =>
              handle' = handle

\* the count is the initial count plus the signals less the calls that returned
\* true, and a call at count 0 that nobody signalled returned false
C11_State ==
    /\ handle.value = Expected
    /\ handle.value >= 0
    /\ \A t \in DOMAIN pc :
          Returned(t, "wait_timeout") /\ pre[t].handle.value = 0 /\ hist.nsig = 0 =>
              ret[t] = "false" /\ handle = pre[t].handle

\* C11: wait_timeout(d) returns true exactly when the call itself took one unit
\* of the count (sem_timedwait succeeded); when it returns false the call left the
\* count unchanged and the deadline it computed was reached; with count 0 and no
\* signal it returns false.
C11_TrueIffDecremented == []C11_State /\ [][C11_Step]_vars

\* a wait_timeout called at count 0 was interrupted, then signalled, and
\* returned true with the count back at 0
C11_Witness ==
    /\ Returned(1, "wait_timeout") /\ ret[1] = "true"
    /\ pre[1].handle.value = 0 /\ hist.nsig = 1 /\ intr[1] > 0
    /\ handle.value = 0

----------------------------------------------------------------------------
(* Threads calling init() and close() on one POSIX Sem, in any order and  *)
(* at any time; nobody waits or signals.                                  *)

InitLife ==
    /\ backend = "posix"
    /\ new_uninit
    /\ NoKernel
    /\ ThreadInit(1..RaceThreads)
    /\ hist = Hist0

NextLife ==
    \/ \E t \in DOMAIN pc, n \in 0..MaxRaceInit : posix_init(t, n)
    \/ \E t \in DOMAIN pc : posix_sem_init(t)
    \/ \E t \in DOMAIN pc : posix_init_store(t)
    \/ \E t \in DOMAIN pc : posix_init_lost(t)
    \/ \E t \in DOMAIN pc : posix_await_init(t)
    \/ \E t \in DOMAIN pc : posix_close(t)
    \/ \E t \in DOMAIN pc : posix_sem_destroy(t)

SpecLife == InitLife /\ [][NextLife]_vars

\* C12: on the POSIX backend, under any interleaving of init() and close()
\* calls of several threads, every state with state = Inited has a live native
\* semaphore, and no sem_destroy is pending on it: the semaphore is not destroyed
\* while the state shows Inited.
C12_InitedIsLive ==
    state = INITED =>
        /\ handle.live
        /\ \A t \in DOMAIN pc : pc[t] # "sem_destroy"

----------------------------------------------------------------------------
(* win32.rs and mac.rs: Sem::close; threads that race close() on one      *)
(* initialised Sem of each lazily initialised backend.                    *)

\* AtomicPtr::swap(null): the value left in the cell and the previous value
kernel_close_swap(cur) == [val |-> 0, prev |-> cur]

win32_close(t) ==
    /\ backend = "win32"
    /\ Quiet
    /\ Call(t, "close", 0,
            IF kernel_close_swap(khandle).prev # 0 THEN "close_CloseHandle" ELSE "idle", "unit")
    /\ khandle' = kernel_close_swap(khandle).val
    /\ res' = [res EXCEPT ![t] = kernel_close_swap(khandle).prev]
    /\ UNCHANGED <<backend, posixVars, kobjs, counter, guards, locks, now, timeout, hist>>

win32_close_CloseHandle(t) ==
    /\ pc[t] = "close_CloseHandle"
    /\ kobjs' = kernel_destroy(kobjs, res[t])
    /\ hist' = [hist EXCEPT !.destroyed = @ + 1]
    /\ Return(t, "unit")
    /\ UNCHANGED <<backend, posixVars, khandle, counter, op, arg, intr, pre, res, guards,
                   locks, now, timeout>>

mac_close(t) ==
    /\ backend = "mac"
    /\ Quiet
    /\ Call(t, "close", 0,
            IF kernel_close_swap(khandle).prev # 0 THEN "close_semaphore_destroy" ELSE "idle",
            "unit")
    /\ khandle' = kernel_close_swap(khandle).val
    /\ res' = [res EXCEPT ![t] = kernel_close_swap(khandle).prev]
    /\ UNCHANGED <<backend, posixVars, kobjs, counter, guards, locks, now, timeout, hist>>

mac_close_semaphore_destroy(t) ==
    /\ pc[t] = "close_semaphore_destroy"
    /\ kobjs' = kernel_destroy(kobjs, res[t])
    /\ hist' = [hist EXCEPT !.destroyed = @ + 1]
    /\ Return(t, "unit")
    /\ UNCHANGED <<backend, posixVars, khandle, counter, op, arg, intr, pre, res, guards,
                   locks, now, timeout>>

\* the most threads that race close()
CloseThreads == 3

\* the Sem that new(n) returned, on each backend
InitClose ==
    /\ backend \in {"posix", "win32", "mac"}
    /\ counter = FALSE /\ now = NoTime
    /\ \E n \in 0..MaxRaceInit :
          /\ IF backend = "posix"
             THEN /\ state = INITED /\ handle = [live |-> TRUE, value |-> n]
                  /\ khandle = 0 /\ kobjs = <<>>
             ELSE /\ new_uninit
                  /\ khandle = 1 /\ kobjs = <<[live |-> TRUE, value |-> n]>>
          /\ hist = [Hist0 EXCEPT !.created = 1, !.initial = n, !.ntrue = 1, !.returned = TRUE]
    /\ ThreadInit(1..CloseThreads)

NextClose ==
    \/ \E t \in DOMAIN pc : posix_close(t)
    \/ \E t \in DOMAIN pc : posix_sem_destroy(t)
    \/ \E t \in DOMAIN pc : win32_close(t)
    \/ \E t \in DOMAIN pc : win32_close_CloseHandle(t)
    \/ \E t \in DOMAIN pc : mac_close(t)
    \/ \E t \in DOMAIN pc : mac_close_semaphore_destroy(t)

SpecClose == InitClose /\ [][NextClose]_vars

\* the native semaphore of the Sem is alive
NativeLive == handle.live \/ \E h \in KernelIds : kobjs[h].live

\* thread t's close() took the Sem over: it destroys, or has destroyed, the
\* native semaphore
Destroys(t) ==
    /\ op[t] = "close"
    /\ IF backend = "posix" THEN pre[t].state = INITED ELSE res[t] # 0

\* C13: when threads call close() concurrently on one initialised Sem, on the
\* POSIX, Windows and Mach backends, exactly one call destroys the native
\* semaphore and the others do nothing; it is never destroyed twice.
C13_OneCloseDestroys ==
    /\ hist.destroyed <= 1
    /\ Cardinality({t \in DOMAIN pc : Destroys(t)}) <= 1
    /\ NativeLive <=> hist.destroyed = 0
    /\ \A t \in DOMAIN pc :
          /\ pc[t] # "idle" => Destroys(t) /\ hist.destroyed = 0
          /\ Returned(t, "close") /\ Destroys(t) => hist.destroyed = 1
    /\ (\A t \in DOMAIN pc : Returned(t, "close")) => hist.destroyed = 1

\* every thread has closed the Sem once the calls raced: one call destroyed the
\* semaphore after the others had returned without touching it
C13_Witness ==
    /\ \A t \in DOMAIN pc : Returned(t, "close")
    /\ \E t \in DOMAIN pc :
          /\ Destroys(t)
          /\ \A u \in DOMAIN pc \ {t} : ~Destroys(u) /\ pre[u].destroyed = 0
    /\ hist.destroyed = 1 /\ ~NativeLive

----------------------------------------------------------------------------
(* Interrupted native calls (SpecSeq).                                    *)

\* C14: on the POSIX backend a wait() that has returned took one unit of a
\* count that was above 0, however many of its sem_wait calls were interrupted;
\* while it is still retrying it has changed nothing.
C14_WaitReturnsAfterDecrement ==
    \A t \in DOMAIN pc :
        /\ Returned(t, "wait") =>
              pre[t].handle.value > 0 /\ handle.value = pre[t].handle.value - 1
        /\ pc[t] = "sem_wait" /\ op[t] = "wait" => handle = pre[t].handle

\* a wait() returned after as many interruptions as a call can meet
C14_Witness ==
    /\ Returned(1, "wait") /\ intr[1] = MaxIntr
    /\ handle.value = pre[1].handle.value - 1

\* C15: on the POSIX backend a try_wait() that returned false found the count
\* at 0 (sem_trywait said it would block) and changed nothing, also after
\* interrupted attempts; one that returned true took one unit; with the count
\* above 0 an interrupted attempt is retried and the call returns true.
C15_TryWaitRetriesInterrupts ==
    \A t \in DOMAIN pc :
        /\ Returned(t, "try_wait") /\ ret[t] = "false" =>
              pre[t].handle.value = 0 /\ handle = pre[t].handle
        /\ Returned(t, "try_wait") /\ ret[t] = "true" =>
              pre[t].handle.value > 0 /\ handle.value = pre[t].handle.value - 1
        /\ pc[t] = "sem_trywait" => handle = pre[t].handle /\ ret[t] = "none"

\* a try_wait() at a count above 0 was interrupted and then returned true
C15_Witness ==
    /\ Returned(1, "try_wait") /\ ret[1] = "true"
    /\ intr[1] = MaxIntr /\ pre[1].handle.value > 0

----------------------------------------------------------------------------
(* The deadline across the retries of wait_timeout (SpecTimed).           *)

\* C16: within one wait_timeout(d) call on the POSIX backend the deadline is
\* worked out once, from the clock reading at the call, before the first
\* sem_timedwait; every retry after an interruption passes that same value, and
\* the call ends with it, however far the clock has moved.
C16_DeadlineComputedOnce ==
    \A t \in DOMAIN pc :
        op[t] = "wait_timeout" => timeout[t] = deadline(pre[t].now, arg[t])

\* a wait_timeout is about to retry, interrupted as often as a call can be, at
\* a clock reading later than the one its deadline was worked out from
C16_Witness ==
    /\ pc[1] = "sem_timedwait" /\ intr[1] = MaxIntr
    /\ Before(pre[1].now, now)
    /\ deadline(now, arg[1]) # timeout[1]

----------------------------------------------------------------------------
(* One caller that initialises and closes a Sem whose native creation may *)
(* fail, on each lazily initialised backend.                              *)

InitFail ==
    /\ backend \in {"posix", "win32", "mac"}
    /\ new_uninit
    /\ NoKernel
    /\ ThreadInit({1})
    /\ hist = Hist0

\* with one caller no init() loses its exchange to another
NextFail ==
    \/ \E t \in DOMAIN pc, n \in 0..MaxRaceInit : posix_init(t, n)
    \/ \E t \in DOMAIN pc : posix_sem_init(t)
    \/ \E t \in DOMAIN pc : posix_init_store(t)
    \/ \E t \in DOMAIN pc : posix_init_lost(t)
    \/ \E t \in DOMAIN pc : posix_close(t)
    \/ \E t \in DOMAIN pc : posix_sem_destroy(t)
    \/ \E t \in DOMAIN pc, n \in 0..MaxRaceInit : win32_init(t, n)
    \/ \E t \in DOMAIN pc : win32_CreateSemaphoreW(t)
    \/ \E t \in DOMAIN pc : win32_init_cas(t)
    \/ \E t \in DOMAIN pc : win32_close(t)
    \/ \E t \in DOMAIN pc : win32_close_CloseHandle(t)
    \/ \E t \in DOMAIN pc, n \in 0..MaxRaceInit : mac_init(t, n)
    \/ \E t \in DOMAIN pc : mac_semaphore_create(t)
    \/ \E t \in DOMAIN pc : mac_init_cas(t)
    \/ \E t \in DOMAIN pc : mac_close(t)
    \/ \E t \in DOMAIN pc : mac_close_semaphore_destroy(t)

SpecFail == InitFail /\ [][NextFail]_vars

\* posix.rs / win32.rs / mac.rs, Sem::new: Some(result) when init said true
new(r) == IF r = "true" THEN "Some" ELSE "None"

\* thread t's init() found the Sem uninitialised and made the creation call
Created(t) ==
    /\ Returned(t, "init")
    /\ IF backend = "posix" THEN pre[t].state = UNINIT ELSE pre[t].khandle = 0

\* the creation call of thread t's init() failed
CreationFailed(t) == IF backend = "posix" THEN res[t] = -1 ELSE res[t] = 0

\* the Sem is uninitialised and no native semaphore is alive
Uninitialised ==
    /\ IF backend = "posix" THEN state = UNINIT ELSE khandle = 0
    /\ ~NativeLive

\* C17: an init() whose native creation call fails returns false and leaves the
\* Sem uninitialised (POSIX: state = Uninit; Windows/Mach: handle null) with no
\* native semaphore alive, so new() returns None; an init() whose creation
\* succeeds, also after a failed one, returns true and leaves the Sem
\* initialised with the count it was given.
C17_FailedCreation ==
    \A t \in DOMAIN pc :
        /\ Created(t) /\ CreationFailed(t) =>
              ret[t] = "false" /\ new(ret[t]) = "None" /\ Uninitialised
        /\ Created(t) /\ ~CreationFailed(t) =>
              /\ ret[t] = "true" /\ new(ret[t]) = "Some"
              /\ IF backend = "posix"
                 THEN state = INITED /\ handle = [live |-> TRUE, value |-> arg[t]]
                 ELSE khandle # 0 /\ kobjs[khandle] = [live |-> TRUE, value |-> arg[t]]

\* the creation call failed in an init(); on Windows the exchange of null for
\* null succeeded all the same
C17_Witness ==
    /\ backend = "win32"
    /\ Created(1) /\ CreationFailed(1) /\ ret[1] = "false"
    /\ hist.failed /\ hist.created > 0 /\ Uninitialised

\* an init() returned true after an init() whose creation call had failed
C17_WitnessRetry ==
    /\ Created(1) /\ ~CreationFailed(1) /\ ret[1] = "true"
    /\ hist.failed /\ hist.created = 1

----------------------------------------------------------------------------
(* The init() calls that lose the exchange (SpecRace).                    *)

\* the step of thread t is the return of an init() that lost the exchange; the
\* state it reads in this step is the last it reads
LosingInitReturns(t) ==
    /\ op[t] = "init"
    /\ pc[t] \in {"init_lost", "await_init"}
    /\ pc'[t] = "idle"

\* C18 as stated: at the moment a losing init() returns, the state it last read
\* is Inited, whatever the outcome of the winner's creation call.
C18_LoserSawInited ==
    [][\A t \in DOMAIN pc : LosingInitReturns(t) => state = INITED]_vars

\* C18, amended: a losing init() returns false only after it has read a state
\* other than Initing; that state is Inited unless a creation call failed, in
\* which case it may be Uninit.
C18_LoserSawNotIniting ==
    [][\A t \in DOMAIN pc :
          LosingInitReturns(t) =>
              /\ ret'[t] = "false"
              /\ state # INITING
              /\ ~hist.failed => state = INITED
              /\ state \in {INITED, UNINIT}]_vars

\* a losing init() has returned false on a Sem that was never initialised: the
\* winner's sem_init failed
C18_Witness ==
    /\ backend = "posix"
    /\ \E u \in DOMAIN pc :
          /\ Returned(u, "init") /\ ret[u] = "false" /\ pre[u].state = INITING
    /\ hist.failed /\ hist.created = 0 /\ state = UNINIT

----------------------------------------------------------------------------
(* win32.rs: Sem::wait_timeout and Sem::signal.  A u32 or u128 count of   *)
(* milliseconds is a pair <<high, low>> of digits in base 2^16, so that   *)
(* 0xFFFFFFFF is a value of the model; the clock counts milliseconds too. *)

Base == 2 ^ 16

WAIT_OBJECT_0 == 0
WAIT_TIMEOUT == 258
\* 0xFFFFFFFF
INFINITE == <<Base - 1, Base - 1>>

\* u32::max_value()
u32_max_value == <<Base - 1, Base - 1>>

\* Duration::as_millis of <<as_secs(), subsec_nanos()>>: secs * 1000 + nanos / 10^6
as_millis(d) ==
    LET low == (d[1] % Base) * 1000 + d[2] \div 1000000
    IN  <<(d[1] \div Base) * 1000 + low \div Base, low % Base>>

\* u128 to u32: Ok when the value fits
try_into_u32(ms) == [ok |-> ms[1] < Base, val |-> ms]

\* timeout.as_millis().try_into().unwrap_or(u32::max_value())
timeout_ms(d) ==
    IF try_into_u32(as_millis(d)).ok THEN try_into_u32(as_millis(d)).val ELSE u32_max_value

\* the instant ms milliseconds after T
After(T, ms) ==
    <<T[1] + ms[1] + (T[2] + ms[2]) \div Base, (T[2] + ms[2]) % Base>>

\* WaitForSingleObject on a semaphore, called at start and looked at at T: takes
\* a unit when there is one; else times out once the interval has elapsed,
\* unless the interval is INFINITE; else blocks
WaitForSingleObject(objs, h, ms, start, T) ==
    IF objs[h].value > 0
    THEN {[result |-> WAIT_OBJECT_0, objs |-> [objs EXCEPT ![h].value = @ - 1]]}
    ELSE IF ms # INFINITE /\ ~Before(T, After(start, ms))
         THEN {[result |-> WAIT_TIMEOUT, objs |-> objs]}
         ELSE {}

\* the callers' contract: wait and signal are used on an initialised Sem only
win32_Usable == backend = "win32" /\ khandle # 0 /\ kobjs[khandle].live

win32_wait_timeout(t, d) ==
    /\ win32_Usable
    /\ Call(t, "wait_timeout", d, "WaitForSingleObject", "none")
    /\ timeout' = [timeout EXCEPT ![t] = timeout_ms(d)]
    /\ UNCHANGED <<backend, posixVars, kernVars, counter, res, guards, locks, now, hist>>

\* the match on the result; any other result panics
win32_WaitForSingleObject(t) ==
    /\ pc[t] = "WaitForSingleObject"
    /\ \E o \in WaitForSingleObject(kobjs, khandle, timeout[t], pre[t].now, now) :
          /\ kobjs' = o.objs
          /\ res' = [res EXCEPT ![t] = o.result]
          /\ Return(t, Bool(o.result = WAIT_OBJECT_0))
          /\ hist' = IF o.result = WAIT_OBJECT_0 THEN [hist EXCEPT !.nwait = @ + 1] ELSE hist
    /\ UNCHANGED <<backend, posixVars, khandle, counter, op, arg, intr, pre, guards, locks,
                   now, timeout>>

\* ReleaseSemaphore(handle, 1, null)
win32_signal(t) ==
    /\ win32_Usable
    /\ Call(t, "signal", 0, "idle", "unit")
    /\ kobjs' = [kobjs EXCEPT ![khandle].value = @ + 1]
    /\ hist' = [hist EXCEPT !.nsig = @ + 1, !.posted = @ \cup (DOMAIN pc \ {t})]
    /\ UNCHANGED <<backend, posixVars, khandle, counter, res, guards, locks, now, timeout>>

\* the clock reaches the instant that lies thread t's interval after its call
win32_clock(t) ==
    /\ pc[t] = "WaitForSingleObject"
    /\ Before(now, After(pre[t].now, timeout[t]))
    /\ now' = After(pre[t].now, timeout[t])
    /\ UNCHANGED <<backend, posixVars, kernVars, counter, threadVars, hist>>

\* durations of 0 ms, 1 ms, 1 s, and of one less than, exactly, and one more
\* than 0xFFFFFFFF ms
Win32Durations ==
    { <<0, 0>>, <<0, 1000000>>, <<1, 0>>,
      <<4294967, 294000000>>, <<4294967, 295000000>>, <<4294967, 296000000>> }

\* win32.rs, Sem::new(n), when its init succeeded
InitWin32 ==
    /\ backend = "win32"
    /\ new_uninit
    /\ counter = FALSE /\ now = NoTime
    /\ khandle = 1
    /\ \E n \in 0..1 :
          /\ kobjs = <<[live |-> TRUE, value |-> n]>>
          /\ hist = [Hist0 EXCEPT !.created = 1, !.initial = n, !.ntrue = 1, !.returned = TRUE]
    /\ ThreadInit({Poster, 1})

\* the calls are made before the clock has moved
NextWin32 ==
    \/ \E d \in Win32Durations : now = NoTime /\ win32_wait_timeout(1, d)
    \/ win32_WaitForSingleObject(1)
    \/ hist.nsig < MaxTimedSignals /\ win32_signal(Poster)
    \/ win32_clock(1)

\* the waiting thread runs, and time passes
SpecWin32 ==
    /\ InitWin32
    /\ [][NextWin32]_vars
    /\ WF_vars(win32_WaitForSingleObject(1))
    /\ WF_vars(win32_clock(1))

\* C19: on the Windows backend wait_timeout(d) is a bounded wait for every
\* duration d, also when d's millisecond count exceeds the largest value the
\* API can express: the call eventually returns.
C19_TimedWaitReturns ==
    (pc[1] = "WaitForSingleObject") ~> (pc[1] = "idle")

\* the calls that do not pass 0xFFFFFFFF as the interval do return
C19_FiniteWaitReturns ==
    (pc[1] = "WaitForSingleObject" /\ timeout[1] # INFINITE) ~> (pc[1] = "idle")

----------------------------------------------------------------------------
(* wasm.rs: the Sem on a shared Int32Array; counter is its element 0.     *)
(* Every Atomics call is one step of the calling thread.                  *)

\* the most threads that share the Sem
WasmThreads == 2

\* Atomics::compare_exchange(&self.value, 0, 0, 0): the previous value
Atomics_compare_exchange(v, expected, replacement) ==
    [val |-> IF v = expected THEN replacement ELSE v, prev |-> v]

\* wasm.rs, Sem::is_zero
is_zero(v) == Atomics_compare_exchange(v, 0, 0).prev = 0

\* Atomics::sub(&self.value, 0, 1) on an i32
Atomics_sub(v, k) == v - k

\* Atomics::add(&self.value, 0, 1) on an i32
Atomics_add(v, k) == v + k

\* Atomics::wait(&self.value, 0, value): "not-equal" at once unless the element
\* holds value, else the thread sleeps until it is notified or timed out
Atomics_wait(v, value) == IF v = value THEN "sleep" ELSE "not-equal"

wasm_Usable == backend = "wasm"

\* try_wait: is_zero(), then false or the subtraction
wasm_try_wait(t) ==
    /\ wasm_Usable
    /\ Call(t, "try_wait", 0, IF is_zero(counter) THEN "idle" ELSE "Atomics_sub",
            IF is_zero(counter) THEN "false" ELSE "none")
    /\ UNCHANGED <<backend, posixVars, kernVars, counter, res, guards, locks, now, timeout, hist>>

\* wait: is_zero(), then Atomics::wait or the subtraction
wasm_wait(t) ==
    /\ wasm_Usable
    /\ Call(t, "wait", 0, IF is_zero(counter) THEN "Atomics_wait" ELSE "Atomics_sub", "none")
    /\ UNCHANGED <<backend, posixVars, kernVars, counter, res, guards, locks, now, timeout, hist>>

\* wait_timeout: is_zero(), then Atomics::wait_with_timeout or the subtraction
wasm_wait_timeout(t) ==
    /\ wasm_Usable
    /\ Call(t, "wait_timeout", 0, IF is_zero(counter) THEN "Atomics_wait" ELSE "Atomics_sub",
            "none")
    /\ UNCHANGED <<backend, posixVars, kernVars, counter, res, guards, locks, now, timeout, hist>>

\* Atomics::wait(&self.value, 0, 1) and wait_with_timeout(&self.value, 0, 1, ms)
wasm_Atomics_wait(t) ==
    /\ pc[t] = "Atomics_wait"
    /\ Goto(t, IF Atomics_wait(counter, 1) = "sleep" THEN "asleep" ELSE "Atomics_sub")
    /\ UNCHANGED <<backend, posixVars, kernVars, counter, op, arg, intr, pre, res, guards,
                   locks, now, timeout, hist>>

\* the timeout of wait_with_timeout runs out: "timed-out", return false
wasm_timed_out(t) ==
    /\ pc[t] = "asleep"
    /\ op[t] = "wait_timeout"
    /\ Return(t, "false")
    /\ UNCHANGED <<backend, posixVars, kernVars, counter, op, arg, intr, pre, res, guards,
                   locks, now, timeout, hist>>

\* let _ = Atomics::sub(&self.value, 0, 1), and the return
wasm_Atomics_sub(t) ==
    /\ pc[t] = "Atomics_sub"
    /\ counter' = Atomics_sub(counter, 1)
    /\ Return(t, IF op[t] = "wait" THEN "unit" ELSE "true")
    /\ hist' = [hist EXCEPT !.nwait = @ + 1]
    /\ UNCHANGED <<backend, posixVars, kernVars, op, arg, intr, pre, res, guards, locks,
                   now, timeout>>

\* signal: Atomics::add(&self.value, 0, 1)
wasm_signal(t) ==
    /\ wasm_Usable
    /\ Call(t, "signal", 0, "Atomics_notify", "none")
    /\ counter' = Atomics_add(counter, 1)
    /\ hist' = [hist EXCEPT !.nsig = @ + 1]
    /\ UNCHANGED <<backend, posixVars, kernVars, res, guards, locks, now, timeout>>

\* signal: Atomics::notify_with_count(&self.value, 0, 1) wakes at most one sleeper
wasm_Atomics_notify(t) ==
    /\ pc[t] = "Atomics_notify"
    /\ \/ /\ \A u \in DOMAIN pc : pc[u] # "asleep"
          /\ pc' = [pc EXCEPT ![t] = "idle"]
       \/ \E u \in DOMAIN pc :
             /\ pc[u] = "asleep"
             /\ pc' = [pc EXCEPT ![t] = "idle", ![u] = "Atomics_sub"]
    /\ ret' = [ret EXCEPT ![t] = "unit"]
    /\ UNCHANGED <<backend, posixVars, kernVars, counter, op, arg, intr, pre, res, guards,
                   locks, now, timeout, hist>>

\* wasm.rs, Semaphore::new(n): value.set_index(0, init as i32)
InitWasm ==
    /\ backend = "wasm"
    /\ new_uninit
    /\ khandle = 0 /\ kobjs = <<>> /\ now = NoTime
    /\ counter \in 0..MaxRaceInit
    /\ hist = [Hist0 EXCEPT !.initial = counter]
    /\ ThreadInit(1..WasmThreads)

\* the calls are made while the stored count is not negative
NextWasm ==
    \/ \E t \in DOMAIN pc : counter >= 0 /\ wasm_try_wait(t)
    \/ \E t \in DOMAIN pc : counter >= 0 /\ wasm_wait(t)
    \/ \E t \in DOMAIN pc : counter >= 0 /\ wasm_wait_timeout(t)
    \/ \E t \in DOMAIN pc : wasm_Atomics_wait(t)
    \/ \E t \in DOMAIN pc : wasm_timed_out(t)
    \/ \E t \in DOMAIN pc : wasm_Atomics_sub(t)
    \/ \E t \in DOMAIN pc : counter >= 0 /\ hist.nsig < MaxSignals /\ wasm_signal(t)
    \/ \E t \in DOMAIN pc : wasm_Atomics_notify(t)

SpecWasm == InitWasm /\ [][NextWasm]_vars

\* C20: on the shared-integer backend, under any interleaving of threads
\* calling wait(), try_wait(), wait_timeout() and signal(), the stored count
\* never goes below 0: the completed decrements never exceed the initial count
\* plus the signals.
C20_CountNeverNegative ==
    /\ counter >= 0
    /\ hist.nwait <= hist.initial + hist.nsig

----------------------------------------------------------------------------
(* The waiting calls of the POSIX Sem when the native call fails with an  *)
(* error they do not expect: a thread closes the Sem while another is in  *)
(* wait(), try_wait() or wait_timeout(), and the native call answers      *)
(* EINVAL for the destroyed semaphore.                                    *)

\* the thread that closes the Sem
Closer == 0

\* posix.rs, Sem::new(n), when its init succeeded
InitErr ==
    /\ backend = "posix"
    /\ state = INITED
    /\ \E n \in 0..1 :
          /\ handle = [live |-> TRUE, value |-> n]
          /\ hist = [Hist0 EXCEPT !.created = 1, !.initial = n, !.ntrue = 1, !.returned = TRUE]
    /\ NoKernel
    /\ ThreadInit({Closer, 1})

NextErr ==
    \/ posix_wait(1)
    \/ posix_sem_wait(1)
    \/ posix_try_wait(1)
    \/ posix_sem_trywait(1)
    \/ \E d \in Durations : posix_wait_timeout(1, d)
    \/ posix_sem_timedwait(1)
    \/ clock_second
    \/ posix_close(Closer)
    \/ posix_sem_destroy(Closer)

SpecErr == InitErr /\ [][NextErr]_vars

\* thread t is in the loop of a waiting call and this step is a turn of it
LoopTurn(t) ==
    /\ pc[t] \in {"sem_wait", "sem_trywait", "sem_timedwait"}
    /\ <<pc[t], intr[t]>>' # <<pc[t], intr[t]>>

\* C21: on the POSIX backend, when the native call inside wait(), try_wait() or
\* wait_timeout() fails with an error outside the expected set of the call, the
\* operation ends in a fatal abort: it neither returns a value nor retries.
C21_UnexpectedErrorAborts ==
    [][\A t \in DOMAIN pc :
          LoopTurn(t) /\ ~handle.live => pc'[t] = "panicked"]_vars

\* the part that holds: wait_timeout aborts on such an error, in every build
C21_TimedWaitAborts ==
    [][\A t \in DOMAIN pc :
          LoopTurn(t) /\ ~handle.live /\ op[t] = "wait_timeout" => pc'[t] = "panicked"]_vars

----------------------------------------------------------------------------
(* posix.rs: the transitions of Sem::state under threads that race init()  *)
(* and close() on one Sem.                                                 *)

StateThreads == 2

InitStates ==
    /\ backend = "posix"
    /\ new_uninit
    /\ NoKernel
    /\ ThreadInit(1..StateThreads)
    /\ hist = Hist0

NextStates ==
    \/ \E t \in DOMAIN pc : posix_init(t, 0)
    \/ \E t \in DOMAIN pc : posix_sem_init(t)
    \/ \E t \in DOMAIN pc : posix_init_store(t)
    \/ \E t \in DOMAIN pc : posix_init_lost(t)
    \/ \E t \in DOMAIN pc : posix_await_init(t)
    \/ \E t \in DOMAIN pc : posix_close(t)
    \/ \E t \in DOMAIN pc : posix_sem_destroy(t)

SpecStates == InitStates /\ [][NextStates]_vars

\* thread t has won the exchange of init() and has not stored the result yet
Initialising(t) == pc[t] \in {"sem_init", "init_store"}

\* the changes of state that init() and close() are meant to make
Transitions ==
    { <<UNINIT, INITING>>, <<INITING, INITED>>, <<INITING, UNINIT>>, <<INITED, UNINIT>> }

\* every change of state is one of the four transitions, made by the call it
\* belongs to
C22_Step ==
    state' # state =>
        /\ <<state, state'>> \in Transitions
        /\ \E t \in DOMAIN pc :
              /\ pc'[t] # pc[t]
              /\ <<state, state'>> = <<UNINIT, INITING>> =>
                    op'[t] = "init" /\ pc[t] = "idle" /\ Initialising(t)'
              /\ state = INITING => Initialising(t) /\ pc'[t] = "idle"
              /\ <<state, state'>> = <<INITED, UNINIT>> =>
                    op'[t] = "close" /\ pc'[t] = "sem_destroy"

\* the state is Initing exactly while some thread is initialising, and only one
\* thread is at a time
C22_State ==
    /\ Cardinality({t \in DOMAIN pc : Initialising(t)}) <= 1
    /\ state = INITING <=> \E t \in DOMAIN pc : Initialising(t)

\* C22: on the POSIX backend, under any interleaving of init() and close()
\* calls, the state changes only by Uninit->Initing (the exchange of init won),
\* Initing->Inited (creation succeeded), Initing->Uninit (creation failed) and
\* Inited->Uninit (close), and at most one thread at a time is between winning
\* the exchange and storing the resulting state.
C22_StateMachine == []C22_State /\ [][C22_Step]_vars

\* after a close, one thread is about to store the result of its second
\* creation while another spins in await_init
C22_Witness ==
    \E t, u \in DOMAIN pc :
        /\ pc[t] = "init_store" /\ pc[u] = "await_init"
        /\ state = INITING /\ hist.destroyed > 0 /\ hist.created > 1

----------------------------------------------------------------------------
(* win32.rs and mac.rs: the native objects that racing init() calls and    *)
(* close() calls create, publish and destroy on one Sem.                   *)

KernelThreads == 2

InitKernel ==
    /\ backend \in {"win32", "mac"}
    /\ new_uninit
    /\ NoKernel
    /\ ThreadInit(1..KernelThreads)
    /\ hist = Hist0

NextKernel ==
    \/ \E t \in DOMAIN pc : win32_init(t, 0)
    \/ \E t \in DOMAIN pc : win32_CreateSemaphoreW(t)
    \/ \E t \in DOMAIN pc : win32_init_cas(t)
    \/ \E t \in DOMAIN pc : win32_init_lost(t)
    \/ \E t \in DOMAIN pc : win32_close(t)
    \/ \E t \in DOMAIN pc : win32_close_CloseHandle(t)
    \/ \E t \in DOMAIN pc : mac_init(t, 0)
    \/ \E t \in DOMAIN pc : mac_semaphore_create(t)
    \/ \E t \in DOMAIN pc : mac_init_cas(t)
    \/ \E t \in DOMAIN pc : mac_init_lost(t)
    \/ \E t \in DOMAIN pc : mac_close(t)
    \/ \E t \in DOMAIN pc : mac_close_semaphore_destroy(t)

SpecKernel == InitKernel /\ [][NextKernel]_vars

\* no call is in flight
Finished == \A t \in DOMAIN pc : pc[t] = "idle"

\* the native objects that were destroyed
Dead == {h \in KernelIds : ~kobjs[h].live}

\* C23: on the Windows and Mach backends, once the racing init() calls and the
\* close() calls have finished, every native object that was created is the
\* published one or has been destroyed, by exactly one destroying call; none is
\* leaked, none is destroyed twice, and the published handle is never a
\* destroyed object.
C23_NoLeakNoDoubleDestroy ==
    /\ hist.created = Len(kobjs)
    /\ khandle # 0 => khandle \in KernelIds /\ kobjs[khandle].live
    /\ hist.destroyed = Cardinality(Dead)
    /\ Finished => \A h \in KernelIds : kobjs[h].live <=> h = khandle

\* all calls have finished: an init() that lost the race destroyed its object,
\* and a close() destroyed the published one
C23_Witness ==
    /\ Finished
    /\ hist.created >= 2 /\ hist.destroyed = hist.created /\ khandle = 0
    /\ \E t, u \in DOMAIN pc :
          /\ op[t] = "close" /\ res[t] # 0
          /\ op[u] = "init" /\ ret[u] = "false" /\ pre[u].khandle = 0
          /\ res[u] # 0 /\ res[u] # res[t]

----------------------------------------------------------------------------
(* posix.rs: Sem::init and Sem::await_init under a fair scheduler; the     *)
(* callers race init() on one Sem and may call it again after it returned. *)

InitCallers == 2

InitSpin ==
    /\ backend = "posix"
    /\ new_uninit
    /\ NoKernel
    /\ ThreadInit(1..InitCallers)
    /\ hist = Hist0

NextSpin ==
    \/ \E t \in DOMAIN pc : posix_init(t, 0)
    \/ \E t \in DOMAIN pc : posix_sem_init(t)
    \/ \E t \in DOMAIN pc : posix_init_store(t)
    \/ \E t \in DOMAIN pc : posix_init_lost(t)
    \/ \E t \in DOMAIN pc : posix_await_init(t)

\* every thread inside init() is scheduled again and again, and sem_init
\* returns; whether a caller calls init() at all is up to the caller
SpecSpin ==
    /\ InitSpin
    /\ [][NextSpin]_vars
    /\ \A t \in 1..InitCallers :
          /\ WF_vars(posix_sem_init(t))
          /\ WF_vars(posix_init_store(t))
          /\ WF_vars(posix_init_lost(t))
          /\ WF_vars(posix_await_init(t))

\* a caller enters init()
InitCalled == \E t \in 1..InitCallers : pc[t] = "idle" /\ pc'[t] # "idle"

\* every init() call eventually returns
InitReturns == \A t \in 1..InitCallers : (pc[t] # "idle") ~> (pc[t] = "idle")

\* C24, as stated: on the POSIX backend, under weakly fair scheduling and a
\* sem_init that always returns, every init() call eventually returns.
C24_EveryInitReturns == InitReturns

\* C24, amended: under weakly fair scheduling and a sem_init that always
\* returns, the init() call of a caller that won the exchange always returns,
\* and every init() call eventually returns when only finitely many init()
\* calls are made.
C24_InitReturnsIfCallsEnd ==
    /\ \A t \in 1..InitCallers :
          (pc[t] \in {"sem_init", "init_store"}) ~> (pc[t] = "idle")
    /\ <>[][~InitCalled]_vars => InitReturns

\* a caller spins in await_init, after a creation that failed, while another
\* caller has won the exchange again
C24_Witness ==
    \E t, u \in DOMAIN pc :
        /\ pc[t] = "await_init" /\ pc[u] = "init_store"
        /\ state = INITING /\ hist.failed /\ res[u] = 0

----------------------------------------------------------------------------
(* The POSIX Sem and the Windows or Mach Sem side by side: one caller      *)
(* makes the same call on both, and each call runs to its end before the   *)
(* next one starts.  Caller 1 holds what the POSIX Sem returned, caller 2  *)
(* what the null-handle Sem did; backend names the null-handle Sem.        *)

PosixSide == 1

KernelSide == 2

KERN_SUCCESS == 0

KERN_OPERATION_TIMED_OUT == 49

\* posix.rs, Sem::init run to its end: the outcomes it can have
Sem_init(s, h, n) ==
    IF init_cas(s).ok
    THEN { [state  |-> init_store(o.res).state,
            handle |-> o.handle,
            ret    |-> init_store(o.res).ret,
            native |-> IF o.res = 0 THEN "created" ELSE "failed"] : o \in sem_init(h, n) }
    ELSE IF init_cas(s).val # INITED /\ await_init(init_cas(s).val)
         THEN {}
         ELSE { [state |-> init_cas(s).val, handle |-> h, ret |-> FALSE, native |-> "none"] }

\* win32.rs, Sem::init run to its end
win32_Sem_init(cur, objs, n) ==
    IF cur # 0
    THEN { [khandle |-> cur, kobjs |-> objs, ret |-> FALSE, native |-> "none"] }
    ELSE { [khandle |-> kernel_init_cas(cur, o.handle).val,
            kobjs   |-> IF kernel_init_cas(cur, o.handle).ok
                        THEN o.objs ELSE kernel_destroy(o.objs, o.handle),
            ret     |-> kernel_init_cas(cur, o.handle).ok /\ win32_init_ok(o.handle),
            native  |-> IF o.handle # 0 THEN "created" ELSE "failed"]
           : o \in kernel_create(objs, n) }

\* mac.rs, Sem::init run to its end: the exchange is made after a creation that
\* succeeded only
mac_Sem_init(cur, objs, n) ==
    IF cur # 0
    THEN { [khandle |-> cur, kobjs |-> objs, ret |-> FALSE, native |-> "none"] }
    ELSE { IF o.handle = 0
           THEN [khandle |-> cur, kobjs |-> o.objs, ret |-> FALSE, native |-> "failed"]
           ELSE [khandle |-> kernel_init_cas(cur, o.handle).val,
                 kobjs   |-> IF kernel_init_cas(cur, o.handle).ok
                             THEN o.objs ELSE kernel_destroy(o.objs, o.handle),
                 ret     |-> kernel_init_cas(cur, o.handle).ok,
                 native  |-> "created"]
           : o \in kernel_create(objs, n) }

kernel_Sem_init(cur, objs, n) ==
    IF backend = "win32" THEN win32_Sem_init(cur, objs, n) ELSE mac_Sem_init(cur, objs, n)

\* posix.rs, Sem::close run to its end
Sem_close(s, h) ==
    [state |-> close_cas(s).val, handle |-> IF close_cas(s).ok THEN sem_destroy(h) ELSE h]

\* win32.rs and mac.rs, Sem::close run to its end
kernel_Sem_close(cur, objs) ==
    [khandle |-> kernel_close_swap(cur).val,
     kobjs   |-> IF kernel_close_swap(cur).prev # 0
                 THEN kernel_destroy(objs, kernel_close_swap(cur).prev) ELSE objs]

\* posix.rs, Sem::try_wait run to its end, with at most k interruptions
RECURSIVE Sem_try_wait(_, _)
Sem_try_wait(h, k) ==
    UNION { IF try_wait_next(o) = "continue"
            THEN (IF k > 0 THEN Sem_try_wait(o.handle, k - 1) ELSE {})
            ELSE { [ret |-> try_wait_next(o) = "break true", handle |-> o.handle] }
            : o \in sem_trywait(h) }

\* semaphore_timedwait for an interval of no length: takes a unit when there is
\* one, and times out at once when there is none
semaphore_timedwait(objs, h) ==
    IF objs[h].value > 0
    THEN {[result |-> KERN_SUCCESS, objs |-> [objs EXCEPT ![h].value = @ - 1]]}
    ELSE {[result |-> KERN_OPERATION_TIMED_OUT, objs |-> objs]}

\* win32.rs and mac.rs, Sem::try_wait: wait_timeout of a zero Duration
kernel_Sem_try_wait(cur, objs) ==
    IF backend = "win32"
    THEN { [ret |-> o.result = WAIT_OBJECT_0, kobjs |-> o.objs]
           : o \in WaitForSingleObject(objs, cur, timeout_ms(<<0, 0>>), now, now) }
    ELSE { [ret |-> o.result = KERN_SUCCESS, kobjs |-> o.objs]
           : o \in semaphore_timedwait(objs, cur) }

\* both callers have made call o with argument a and got p and k
BothReturn(o, a, p, k) ==
    /\ op'  = [op  EXCEPT ![PosixSide] = o, ![KernelSide] = o]
    /\ arg' = [arg EXCEPT ![PosixSide] = a, ![KernelSide] = a]
    /\ ret' = [ret EXCEPT ![PosixSide] = p, ![KernelSide] = k]
    /\ UNCHANGED <<backend, counter, pc, intr, pre, res, guards, locks, now, timeout>>

\* init(n) on both, with the same outcome of the native creation
both_init(n) ==
    \E p \in Sem_init(state, handle, n), k \in kernel_Sem_init(khandle, kobjs, n) :
        /\ p.native = k.native
        /\ state' = p.state /\ handle' = p.handle
        /\ khandle' = k.khandle /\ kobjs' = k.kobjs
        /\ hist' = IF p.native = "created"
                   THEN [hist EXCEPT !.created = @ + 1, !.initial = n, !.nsig = 0, !.nwait = 0]
                   ELSE IF p.native = "failed" THEN [hist EXCEPT !.failed = TRUE] ELSE hist
        /\ BothReturn("init", n, Bool(p.ret), Bool(k.ret))

both_close ==
    /\ state' = Sem_close(state, handle).state
    /\ handle' = Sem_close(state, handle).handle
    /\ khandle' = kernel_Sem_close(khandle, kobjs).khandle
    /\ kobjs' = kernel_Sem_close(khandle, kobjs).kobjs
    /\ hist' = [hist EXCEPT !.destroyed = IF state = INITED THEN @ + 1 ELSE @]
    /\ BothReturn("close", 0, "unit", "unit")

\* signal and try_wait are called on an initialised Sem only
BothUsable ==
    /\ state = INITED /\ handle.live
    /\ khandle # 0 /\ kobjs[khandle].live

both_signal ==
    /\ BothUsable
    /\ handle' = sem_post(handle)
    /\ kobjs' = [kobjs EXCEPT ![khandle].value = @ + 1]
    /\ hist' = [hist EXCEPT !.nsig = @ + 1]
    /\ BothReturn("signal", 0, "unit", "unit")
    /\ UNCHANGED <<state, khandle>>

both_try_wait ==
    /\ BothUsable
    /\ \E p \in Sem_try_wait(handle, MaxIntr), k \in kernel_Sem_try_wait(khandle, kobjs) :
          /\ handle' = p.handle
          /\ kobjs' = k.kobjs
          /\ hist' = IF p.ret THEN [hist EXCEPT !.nwait = @ + 1] ELSE hist
          /\ BothReturn("try_wait", 0, Bool(p.ret), Bool(k.ret))
    /\ UNCHANGED <<state, khandle>>

InitBoth ==
    /\ backend \in {"win32", "mac"}
    /\ new_uninit
    /\ NoKernel
    /\ ThreadInit({PosixSide, KernelSide})
    /\ hist = Hist0

NextBoth ==
    \/ \E n \in 0..MaxInit : hist.created < MaxCreate /\ both_init(n)
    \/ both_close
    \/ hist.nsig < MaxSignals /\ both_signal
    \/ both_try_wait

SpecBoth == InitBoth /\ [][NextBoth]_vars

\* C25: for every single-threaded sequence of init(n), close(), signal() and
\* try_wait() calls, signal and try_wait on an initialised Sem only, with the
\* same outcomes of the native creation, the POSIX Sem and the Windows or Mach
\* Sem return the same result call by call; the POSIX state is Inited exactly
\* when the handle is not null, and then the two counts are equal.
C25_SameResults ==
    /\ op[PosixSide] = op[KernelSide]
    /\ arg[PosixSide] = arg[KernelSide]
    /\ ret[PosixSide] = ret[KernelSide]
    /\ state # INITING
    /\ state = INITED <=> khandle # 0
    /\ state = INITED =>
          /\ handle.live /\ kobjs[khandle].live
          /\ handle.value = kobjs[khandle].value
    /\ state = UNINIT => ~handle.live /\ \A h \in KernelIds : ~kobjs[h].live

\* after a creation that failed and a close(), a second init() succeeded on both
\* and a try_wait() took a unit that a signal() had added
C25_Witness ==
    /\ op[PosixSide] = "try_wait" /\ ret[PosixSide] = "true" /\ ret[KernelSide] = "true"
    /\ hist.failed /\ hist.destroyed > 0 /\ hist.created > 1
    /\ hist.initial = 0 /\ hist.nsig > 0

====
